---- MODULE Spec2Model ----
(***************************************************************************)
(* A model of behaviour_tree.py: the node classes Fallback, Sequence,      *)
(* Condition and Action, the child-list mutators of CompositeNode and the  *)
(* recursive evaluation run().                                             *)
(*                                                                         *)
(* The wrapped callables are opaque: every invocation of a predicate or    *)
(* an operation nondeterministically returns one of its values or raises.  *)
(* A run is therefore a SET of possible results; each result carries what  *)
(* the run returned (or the exception that left it), the ordered record of *)
(* every node.run() that was entered, the ordered record of every callable *)
(* invocation, and the Action._status store as the run leaves it.          *)
(***************************************************************************)
EXTENDS Integers, Sequences, FiniteSets, TLC

VARIABLES kind, children, status, last

vars == <<kind, children, status, last>>

\* ------------------------------------------------------------------ bounds
\* Number of node objects constructed before the tree is assembled.
NumNodes == 4
\* Cap on the total number of child links in the heap.
MaxEdges == 3
\* Depth of nested run() calls at which the interpreter raises RecursionError.
MaxDepth == 3

Nodes == 1..NumNodes

\* ------------------------------------------------------------------ values
Status == {"SUCCESS", "RUNNING", "FAIL"}

Composites == {"Fallback", "Sequence"}

Kinds == Composites \cup {"Condition", "Action"}

\* What leaves a call instead of a return value.
Exceptions == {"Error", "RecursionError"}

\* What a wrapped predicate can do when invoked: return a bool, or raise.
ConditionOutcomes == {"True", "False", "Error"}

\* What a wrapped operation can do when invoked: return a Status, or raise.
ActionOutcomes == Status \cup {"Error"}

Truthy(v) == v = "True"

Raised(r) == r.ret \in Exceptions

IsComposite(n) == kind[n] \in Composites

RECURSIVE EdgesUpTo(_)
EdgesUpTo(n) == IF n = 0 THEN 0 ELSE Len(children[n]) + EdgesUpTo(n - 1)

TotalEdges == EdgesUpTo(NumNodes)

RECURSIVE RunNode(_, _, _), FallbackLoop(_, _, _, _), SequenceLoop(_, _, _, _)

\* ------------------------------------------------------------- list.insert
\* Python's list.insert(index, x): a negative index counts from the end, and
\* the resulting position is clamped into [0, len]; it never raises.
\* A variant that sends every negative index to the front.
InsertPosNegativeToFront(list, index) ==
  IF index < 0 THEN 0 ELSE IF index > Len(list) THEN Len(list) ELSE index

InsertPos(list, index) ==
  LET n == Len(list)
      i == IF index < 0 THEN index + n ELSE index
  IN  IF i < 0 THEN 0 ELSE IF i > n THEN n ELSE i

\* A variant that places the child after the indexed element, not before it.
ListInsertOffByOne(list, index, x) ==
  LET q == InsertPos(list, index)
      p == IF q < Len(list) THEN q + 1 ELSE q
  IN  SubSeq(list, 1, p) \o <<x>> \o SubSeq(list, p + 1, Len(list))

ListInsert(list, index, x) ==
  LET p == InsertPos(list, index)
  IN  SubSeq(list, 1, p) \o <<x>> \o SubSeq(list, p + 1, Len(list))

ListAppend(list, x) == Append(list, x)

\* ------------------------------------------------------------------- run()
\* The evaluation context threaded through one root run.
Enter(r) == [r EXCEPT !.ret = "None"]

Invoke(r, n, v) == [r EXCEPT !.calls = Append(@, [node |-> n, val |-> v])]

Exit(r, n, d) ==
  [r EXCEPT !.trace = Append(@, [node |-> n, depth |-> d, ret |-> r.ret])]

ConditionStatus(v) == IF Truthy(v) THEN "SUCCESS" ELSE "FAIL"

\* A variant that evaluates the predicate once to test it and once more to
\* report it.
ConditionRunTwice(n, r) ==
  UNION { IF u \in Exceptions THEN {[Invoke(r, n, u) EXCEPT !.ret = u]}
          ELSE { LET c == Invoke(Invoke(r, n, u), n, v)
                 IN  IF v \in Exceptions THEN [c EXCEPT !.ret = v]
                     ELSE [c EXCEPT !.ret = ConditionStatus(v)]
                 : v \in ConditionOutcomes }
        : u \in ConditionOutcomes }

ConditionRun(n, r) ==
  { LET c == Invoke(r, n, v)
    IN  IF v \in Exceptions THEN [c EXCEPT !.ret = v]
        ELSE [c EXCEPT !.ret = ConditionStatus(v)]
    : v \in ConditionOutcomes }

\* A variant that returns the status retained from the run before.
ActionRunStale(n, r) ==
  { LET c == Invoke(r, n, v)
    IN  IF v \in Exceptions THEN [c EXCEPT !.ret = v]
        ELSE [c EXCEPT !.status[n] = v, !.ret = r.status[n]]
    : v \in ActionOutcomes }

ActionRun(n, r) ==
  { LET c == Invoke(r, n, v)
    IN  IF v \in Exceptions THEN [c EXCEPT !.ret = v]
        ELSE LET s == [c EXCEPT !.status[n] = v]
             IN  [s EXCEPT !.ret = s.status[n]]
    : v \in ActionOutcomes }

\* A variant that does not stop at a RUNNING child.
FallbackLoopIgnoresRunning(n, i, d, r) ==
  IF i > Len(children[n]) THEN {[r EXCEPT !.ret = "FAIL"]}
  ELSE UNION { IF Raised(c) THEN {c}
               ELSE IF c.ret = "SUCCESS" THEN {[c EXCEPT !.ret = "SUCCESS"]}
               ELSE FallbackLoop(n, i + 1, d, c)
             : c \in RunNode(children[n][i], d + 1, r) }

\* A variant that catches what a child raises and falls back to the next child.
FallbackLoopCatches(n, i, d, r) ==
  IF i > Len(children[n]) THEN {[r EXCEPT !.ret = "FAIL"]}
  ELSE UNION { IF c.ret = "SUCCESS" THEN {[c EXCEPT !.ret = "SUCCESS"]}
               ELSE IF c.ret = "RUNNING" THEN {[c EXCEPT !.ret = "RUNNING"]}
               ELSE FallbackLoop(n, i + 1, d, c)
             : c \in RunNode(children[n][i], d + 1, r) }

FallbackLoop(n, i, d, r) ==
  IF i > Len(children[n]) THEN {[r EXCEPT !.ret = "FAIL"]}
  ELSE UNION { IF Raised(c) THEN {c}
               ELSE IF c.ret = "SUCCESS" THEN {[c EXCEPT !.ret = "SUCCESS"]}
               ELSE IF c.ret = "RUNNING" THEN {[c EXCEPT !.ret = "RUNNING"]}
               ELSE FallbackLoop(n, i + 1, d, c)
             : c \in RunNode(children[n][i], d + 1, r) }

\* A variant that reports a RUNNING child as a failed one.
SequenceLoopRunningAsFail(n, i, d, r) ==
  IF i > Len(children[n]) THEN {[r EXCEPT !.ret = "SUCCESS"]}
  ELSE UNION { IF Raised(c) THEN {c}
               ELSE IF c.ret = "FAIL" THEN {[c EXCEPT !.ret = "FAIL"]}
               ELSE IF c.ret = "RUNNING" THEN {[c EXCEPT !.ret = "FAIL"]}
               ELSE SequenceLoop(n, i + 1, d, c)
             : c \in RunNode(children[n][i], d + 1, r) }

SequenceLoop(n, i, d, r) ==
  IF i > Len(children[n]) THEN {[r EXCEPT !.ret = "SUCCESS"]}
  ELSE UNION { IF Raised(c) THEN {c}
               ELSE IF c.ret = "FAIL" THEN {[c EXCEPT !.ret = "FAIL"]}
               ELSE IF c.ret = "RUNNING" THEN {[c EXCEPT !.ret = "RUNNING"]}
               ELSE SequenceLoop(n, i + 1, d, c)
             : c \in RunNode(children[n][i], d + 1, r) }

\* A variant with memory: it resumes at the first child that is an Action
\* whose retained status is RUNNING.
FallbackRunResumes(n, d, r) ==
  LET running == { i \in 1..Len(children[n]) :
                     /\ kind[children[n][i]] = "Action"
                     /\ r.status[children[n][i]] = "RUNNING" }
  IN  IF running = {} THEN FallbackLoop(n, 1, d, r)
      ELSE FallbackLoop(n, CHOOSE i \in running : \A j \in running : i <= j, d, r)

FallbackRun(n, d, r) == FallbackLoop(n, 1, d, r)

SequenceRun(n, d, r) == SequenceLoop(n, 1, d, r)

\* node.run() dispatched on the node's class; a call nested deeper than the
\* interpreter allows does not enter the callee and raises RecursionError.
RunNode(n, d, r) ==
  IF d > MaxDepth THEN {[r EXCEPT !.ret = "RecursionError"]}
  ELSE { Exit(x, n, d) :
         x \in CASE kind[n] = "Fallback"  -> FallbackRun(n, d, Enter(r))
                 [] kind[n] = "Sequence"  -> SequenceRun(n, d, Enter(r))
                 [] kind[n] = "Condition" -> ConditionRun(n, Enter(r))
                 [] kind[n] = "Action"    -> ActionRun(n, Enter(r)) }

RootRun(n, st) ==
  RunNode(n, 1, [ret |-> "None", trace |-> <<>>, calls |-> <<>>, status |-> st])

\* ------------------------------------------------------------------ state
NoOp == [op |-> "none", node |-> 0, index |-> 0, child |-> 0,
         ret |-> "None", trace |-> <<>>, calls |-> <<>>]

\* The nodes constructed before assembly: node i is an instance of ClassOf(i),
\* so four nodes are one Condition, one Fallback, one Sequence, one Action.
ClassOf(i) ==
  LET j == i % 4
  IN  CASE j = 1 -> "Condition" [] j = 2 -> "Fallback"
        [] j = 3 -> "Sequence"  [] j = 0 -> "Action"

Init ==
  /\ kind = [n \in Nodes |-> ClassOf(n)]
  /\ children = [n \in Nodes |-> <<>>]
  /\ status = [n \in Nodes |-> "RUNNING"]
  /\ last = NoOp

\* The caller. `last` is the call it made most recently and what came back.
\* It either drops that result (Forget) and is then free to make any call, or,
\* as a tick loop does, runs the node it has just run once more. Every
\* sequence of calls is possible; only the record of a finished call is
\* dropped between two unrelated calls.
Idle == last.op = "none"

Ticking(n) == last.op = "run" /\ last.node = n

Forget ==
  /\ ~Idle
  /\ last' = NoOp
  /\ UNCHANGED <<kind, children, status>>

\* The indices handed to insert_child: every in-range index of the receiver,
\* every negative index that counts from its end, and one beyond either side.
IndexRange(p) == (-(Len(children[p]) + 1))..(Len(children[p]) + 1)

AddChild(p, c) ==
  /\ Idle
  /\ IsComposite(p)
  /\ TotalEdges < MaxEdges
  /\ children' = [children EXCEPT ![p] = ListAppend(@, c)]
  /\ last' = [NoOp EXCEPT !.op = "add_child", !.node = p, !.child = c,
                          !.ret = "self"]
  /\ UNCHANGED <<kind, status>>

InsertChild(p, i, c) ==
  /\ Idle
  /\ IsComposite(p)
  /\ TotalEdges < MaxEdges
  /\ children' = [children EXCEPT ![p] = ListInsert(@, i, c)]
  /\ last' = [NoOp EXCEPT !.op = "insert_child", !.node = p, !.index = i,
                          !.child = c, !.ret = "self"]
  /\ UNCHANGED <<kind, status>>

\* A variant that consumes the children it walks.
RunConsumesChildren(n) ==
  /\ Idle \/ Ticking(n)
  /\ \E res \in RootRun(n, status) :
       /\ status' = res.status
       /\ last' = [NoOp EXCEPT !.op = "run", !.node = n, !.ret = res.ret,
                               !.trace = res.trace, !.calls = res.calls]
  /\ children' = [children EXCEPT
                    ![n] = IF Len(@) > 0 THEN Tail(@) ELSE @]
  /\ UNCHANGED kind

Run(n) ==
  /\ Idle \/ Ticking(n)
  /\ \E res \in RootRun(n, status) :
       /\ status' = res.status
       /\ last' = [NoOp EXCEPT !.op = "run", !.node = n, !.ret = res.ret,
                               !.trace = res.trace, !.calls = res.calls]
  /\ UNCHANGED <<kind, children>>

Next ==
  \/ \E p, c \in Nodes : AddChild(p, c)
  \/ \E p, c \in Nodes : \E i \in IndexRange(p) : InsertChild(p, i, c)
  \/ \E n \in Nodes : Run(n)
  \/ Forget

Spec == Init /\ [][Next]_vars

\* ------------------------------------------------------- reading a result
\* The events of the root's direct children, in the order they were evaluated.
Kids(tr) == SelectSeq(tr, LAMBDA e : e.depth = 2)

CallsOf(n) == SelectSeq(last.calls, LAMBDA x : x.node = n)

EventsOf(n) == SelectSeq(last.trace, LAMBDA e : e.node = n)

RanRoot(k) == last.op = "run" /\ kind[last.node] = k

\* C1: a run of a Fallback evaluates its children in list order, each at most
\* once; every child before the last one evaluated returned FAIL, so nothing
\* is evaluated after the first SUCCESS or RUNNING; when every evaluated child
\* returned a Status, the run returns that first SUCCESS or RUNNING, or FAIL
\* after all children (also with no children) returned FAIL.
C1_FallbackContract ==
  RanRoot("Fallback") =>
    LET ch == children[last.node]
        k  == Kids(last.trace)
    IN  /\ Len(k) <= Len(ch)
        /\ \A j \in 1..Len(k) : k[j].node = ch[j]
        /\ \A j \in 1..(Len(k) - 1) : k[j].ret = "FAIL"
        /\ (\A j \in 1..Len(k) : k[j].ret \in Status) =>
             IF \E j \in 1..Len(k) : k[j].ret \in {"SUCCESS", "RUNNING"}
             THEN last.ret = k[Len(k)].ret
             ELSE Len(k) = Len(ch) /\ last.ret = "FAIL"

\* A Fallback whose first child failed and whose second succeeded, with a
\* third child left unevaluated and two callables invoked in all.
C1_Witness ==
  /\ RanRoot("Fallback")
  /\ Len(children[last.node]) = 3
  /\ Len(Kids(last.trace)) = 2
  /\ Kids(last.trace)[1].ret = "FAIL"
  /\ Kids(last.trace)[2].ret = "SUCCESS"
  /\ last.ret = "SUCCESS"
  /\ Len(last.calls) = 2

\* C2: a run of a Sequence evaluates its children in list order, each at most
\* once; every child before the last one evaluated returned SUCCESS, so
\* nothing is evaluated after the first FAIL or RUNNING; when every evaluated
\* child returned a Status, the run returns that first FAIL or RUNNING, or
\* SUCCESS after all children (also with no children) returned SUCCESS.
C2_SequenceContract ==
  RanRoot("Sequence") =>
    LET ch == children[last.node]
        k  == Kids(last.trace)
    IN  /\ Len(k) <= Len(ch)
        /\ \A j \in 1..Len(k) : k[j].node = ch[j]
        /\ \A j \in 1..(Len(k) - 1) : k[j].ret = "SUCCESS"
        /\ (\A j \in 1..Len(k) : k[j].ret \in Status) =>
             IF \E j \in 1..Len(k) : k[j].ret \in {"FAIL", "RUNNING"}
             THEN last.ret = k[Len(k)].ret
             ELSE Len(k) = Len(ch) /\ last.ret = "SUCCESS"

\* Sequence([Condition, Condition, Action]) whose predicate held and then did
\* not: the run returns FAIL and the Action's operation is never invoked.
C2_Witness ==
  /\ RanRoot("Sequence")
  /\ Len(children[last.node]) = 3
  /\ kind[children[last.node][3]] = "Action"
  /\ Len(Kids(last.trace)) = 2
  /\ Kids(last.trace)[1].ret = "SUCCESS"
  /\ Kids(last.trace)[2].ret = "FAIL"
  /\ last.ret = "FAIL"
  /\ CallsOf(children[last.node][3]) = <<>>

\* C5: in any run, every evaluation of a Condition invokes its predicate
\* exactly once and returns SUCCESS when the predicate returned true, FAIL
\* when it returned false (the exception when it raised), and never RUNNING.
C5_ConditionContract ==
  last.op = "run" =>
    \A n \in Nodes : kind[n] = "Condition" =>
      LET cs == CallsOf(n)
          es == EventsOf(n)
      IN  /\ Len(cs) = Len(es)
          /\ \A j \in 1..Len(es) :
               /\ es[j].ret # "RUNNING"
               /\ es[j].ret = "SUCCESS" <=> cs[j].val = "True"
               /\ es[j].ret = "FAIL" <=> cs[j].val = "False"
               /\ es[j].ret = "Error" <=> cs[j].val = "Error"

\* One Condition evaluated twice in a run: its predicate held, then did not.
C5_Witness ==
  /\ last.op = "run"
  /\ \E n \in Nodes :
       /\ kind[n] = "Condition"
       /\ Len(CallsOf(n)) = 2
       /\ CallsOf(n)[1].val = "True" /\ EventsOf(n)[1].ret = "SUCCESS"
       /\ CallsOf(n)[2].val = "False" /\ EventsOf(n)[2].ret = "FAIL"

\* C7: when a wrapped callable raises during a run, the raising invocation is
\* the last invocation of the run (no later child, no retry), every node.run()
\* that ends after it ends with that exception, one nesting level at a time
\* up to the root, and the exception is the outcome of the root run.
C7_ExceptionPropagates ==
  last.op = "run" =>
    \A j \in 1..Len(last.calls) : last.calls[j].val = "Error" =>
      /\ j = Len(last.calls)
      /\ last.ret = "Error"
      /\ \E e \in 1..Len(last.trace) :
           /\ last.trace[e].node = last.calls[j].node
           /\ \A f \in 1..(e - 1) : last.trace[f].ret # "Error"
           /\ \A f \in e..Len(last.trace) : last.trace[f].ret = "Error"
           /\ \A f \in (e + 1)..Len(last.trace) :
                last.trace[f].depth = last.trace[f - 1].depth - 1
           /\ last.trace[Len(last.trace)].depth = 1

\* A callable two levels below a Fallback root raised, and the Fallback had a
\* further child it could have moved on to.
C7_Witness ==
  /\ RanRoot("Fallback")
  /\ last.ret = "Error"
  /\ Len(last.trace) = 3
  /\ last.trace[1].depth = 3 /\ last.trace[1].ret = "Error"
  /\ Len(children[last.node]) > Len(Kids(last.trace))

\* C3 as stated: insert_child with an index outside [0, length] fails with an
\* out-of-bounds error and leaves the child sequence as it was.
C3_OutOfRangeFails ==
  [][ LET p == last'.node
          i == last'.index
      IN  (last'.op = "insert_child" /\ (i < 0 \/ i > Len(children[p]))) =>
            (last'.ret = "IndexError" /\ children' = children) ]_vars

\* C3 as amended: insert_child with an index outside [0, length] does not
\* fail. An index above the length appends the child; a negative index -k
\* with k <= length places it before the last k children; an index below
\* -length places it first. The call returns the composite, the child count
\* grows by one and the children already present keep their order.
C3_OutOfRangeClamps ==
  [][ LET p == last'.node
          c == last'.child
          i == last'.index
          old == children[p]
          n == Len(children[p])
      IN  (last'.op = "insert_child" /\ (i < 0 \/ i > n)) =>
            /\ last'.ret = "self"
            /\ children'[p] =
                 IF i > n THEN old \o <<c>>
                 ELSE IF i < -n THEN <<c>> \o old
                 ELSE SubSeq(old, 1, n + i) \o <<c>> \o SubSeq(old, n + i + 1, n) ]_vars

\* insert_child was handed an index beyond the end of a list of two children:
\* the call returned the composite and the new child is the third.
C3_Witness ==
  /\ last.op = "insert_child"
  /\ Len(children[last.node]) = 3
  /\ last.index > 2
  /\ children[last.node][3] = last.child
  /\ last.ret = "self"

\* What one step does to the retained status of every Action.
C4_Step ==
  /\ last'.op # "run" => status' = status
  /\ last'.op = "run" =>
       \A n \in Nodes : kind[n] = "Action" =>
         LET cs   == SelectSeq(last'.calls, LAMBDA x : x.node = n)
             es   == SelectSeq(last'.trace, LAMBDA e : e.node = n)
             done == SelectSeq(cs, LAMBDA x : x.val \in Status)
         IN  /\ Len(cs) = Len(es)
             /\ \A j \in 1..Len(es) : es[j].ret = cs[j].val
             /\ status'[n] = IF done = <<>> THEN status[n]
                             ELSE done[Len(done)].val

\* C4: an Action's retained status is RUNNING at construction and changes
\* only when the Action runs; every evaluation of an Action invokes its
\* operation once and returns what that invocation returned, and after a run
\* the retained status is the Status returned by the Action's most recent
\* completed invocation.
C4_ActionStatus ==
  /\ \A n \in Nodes : kind[n] = "Action" => status[n] = "RUNNING"
  /\ [][C4_Step]_vars

\* One Action evaluated twice in a run, returning FAIL and then SUCCESS: the
\* retained status is SUCCESS.
C4_Witness ==
  /\ last.op = "run"
  /\ \E n \in Nodes :
       /\ kind[n] = "Action"
       /\ Len(CallsOf(n)) = 2
       /\ CallsOf(n)[1].val = "FAIL" /\ EventsOf(n)[1].ret = "FAIL"
       /\ CallsOf(n)[2].val = "SUCCESS" /\ EventsOf(n)[2].ret = "SUCCESS"
       /\ status[n] = "SUCCESS"

\* C6: add_child places the child last; insert_child with 0 <= i <= length
\* places it at position i and moves every child previously at position >= i
\* one position later; either call grows the receiver's child count by one,
\* keeps the order of the children already present and touches no other
\* composite.
C6_ChildOrder ==
  [][ LET p == last'.node
          c == last'.child
          i == last'.index
          old == children[p]
          new == children'[p]
      IN  /\ last'.op = "add_child" =>
               /\ Len(new) = Len(old) + 1
               /\ new[Len(new)] = c
               /\ \A j \in 1..Len(old) : new[j] = old[j]
          /\ (last'.op = "insert_child" /\ 0 <= i /\ i <= Len(old)) =>
               /\ Len(new) = Len(old) + 1
               /\ new[i + 1] = c
               /\ \A j \in 1..i : new[j] = old[j]
               /\ \A j \in (i + 1)..Len(old) : new[j + 1] = old[j]
          /\ last'.op \in {"add_child", "insert_child"} =>
               \A q \in Nodes \ {p} : children'[q] = children[q] ]_vars

\* insert_child(1, c) on a composite with two different children put c
\* between them.
C6_Witness ==
  /\ last.op = "insert_child"
  /\ last.index = 1
  /\ Len(children[last.node]) = 3
  /\ children[last.node][2] = last.child
  /\ children[last.node][1] # children[last.node][3]
  /\ children[last.node][1] # last.child
  /\ children[last.node][3] # last.child

\* C8: a run of a composite that directly follows a run of the same composite
\* starts again at the first child and walks the children in list order,
\* whatever the earlier run returned; and when its children return what they
\* returned in the earlier run, it returns what the earlier run returned.
C8_FreshEvaluation ==
  [][ (/\ last.op = "run" /\ last'.op = "run"
       /\ last'.node = last.node /\ IsComposite(last.node)) =>
        LET ch == children[last.node]
            k1 == Kids(last.trace)
            k2 == Kids(last'.trace)
        IN  /\ Len(ch) > 0 => Len(k2) > 0
            /\ \A j \in 1..Len(k2) : k2[j].node = ch[j]
            /\ (/\ Len(k2) = Len(k1)
                /\ \A j \in 1..Len(k1) : k2[j].ret = k1[j].ret) =>
                 last'.ret = last.ret ]_vars

\* A run of a composite has just returned RUNNING because its second child
\* reported RUNNING after the first let it pass; the same composite can be
\* run again from here.
C8_Witness ==
  /\ last.op = "run"
  /\ IsComposite(last.node)
  /\ last.ret = "RUNNING"
  /\ Len(Kids(last.trace)) = 2
  /\ Kids(last.trace)[2].ret = "RUNNING"
  /\ Len(last.calls) = 2

\* C9: a run, whether it returns a Status or ends in an exception, leaves
\* every composite's child sequence and every node's class as they were.
C9_RunKeepsTopology ==
  [][ last'.op = "run" => (children' = children /\ kind' = kind) ]_vars

\* A run of a composite with three children ended in a propagated exception
\* after its first child had been evaluated.
C9_Witness ==
  /\ last.op = "run"
  /\ IsComposite(last.node)
  /\ Len(children[last.node]) = 3
  /\ last.ret = "Error"
  /\ Len(Kids(last.trace)) >= 2

ChildSet(n) == { children[n][i] : i \in 1..Len(children[n]) }

RECURSIVE Closure(_, _)
Closure(S, k) ==
  IF k = 0 THEN S ELSE Closure(S \cup UNION { ChildSet(m) : m \in S }, k - 1)

Descendants(n) == Closure(ChildSet(n), NumNodes)

\* C10 as stated: whatever nodes add_child and insert_child are handed, no
\* composite is reachable from itself by child links, and no run ends because
\* the nesting of run() calls exceeded what the interpreter allows.
C10_Acyclic ==
  /\ \A n \in Nodes : n \notin Descendants(n)
  /\ last.op = "run" => last.ret # "RecursionError"

====
